---------------------------- MODULE Spec2Model ----------------------------
(***************************************************************************)
(* Model of ncc's backup command (src/src/ncc/backup/backup.py): the CLI   *)
(* entry point `backup`, `load_inventory`, the orchestrator                *)
(* `backup_all_devices` running on a ThreadPoolExecutor, the per-device    *)
(* task `backup_device` and `print_summary`.                               *)
(*                                                                         *)
(* Python values are represented as follows.                               *)
(*   - An optional value (None, or a dict key that is absent) is a tuple   *)
(*     of length 0 or 1: None is <<>>, the value x is <<x>>.               *)
(*   - A hostname is the sequence of its dot-separated labels, so that     *)
(*     "r1.lab" is <<"r1", "lab">> and hostname.split('.') is the          *)
(*     sequence itself.                                                    *)
(*   - A text is a sequence of characters; a file holds a sequence of      *)
(*     bytes (the text as the text-mode file object encodes it).           *)
(***************************************************************************)
EXTENDS Integers, Sequences, FiniteSets, TLC

\* ------------------------------------------------------------------ bounds

\* Longest inventory explored.
MaxDevices == 2
\* Largest ctx.workers explored.
MaxWorkers == 2
\* Number of distinct seconds the wall clock shows during a run.
MaxClock == 2

\* ---------------------------------------------------------- optional values

None == <<>>

Some(x) == <<x>>

Val(o) == o[1]

\* dict.get(key, default)
Get(o, default) == IF o = <<>> THEN default ELSE o[1]

\* Python truthiness of an optional string: None and "" are false.
Truthy(o) == o # <<>> /\ o[1] # ""

\* Python truthiness of an optional sequence of characters.
TruthySeq(o) == o # <<>> /\ o[1] # <<>>

Range(s) == {s[k] : k \in 1..Len(s)}

\* --------------------------------------------------------------- the inputs

\* Device types napalm's get_network_driver finds a driver for; any other
\* type makes it raise (backup.py line 244).
NapalmDrivers == {"ios", "eos"}

KeyErrorHostname == "'hostname'"

NoDriverError == "Cannot import driver. Is the library installed?"

ConstructError == "driver construction failed"

OpenError == "connection refused"

FactsError == "get_facts failed"

ConfigError == "get_config failed"

MkdirError == "mkdir: permission denied"

OpenFileError == "open: permission denied"

WriteError == "write: no space left on device"

\* Inventory entries: the JSON objects of the devices file.  A key that the
\* object lacks is None.
ValidRecords ==
  { [hostname |-> Some(<<"r1", "lab">>), device_type |-> Some("ios"),
     username |-> Some("alice"), password |-> None],
    [hostname |-> Some(<<"r1", "dc">>), device_type |-> Some("ios"),
     username |-> None, password |-> None],
    [hostname |-> Some(<<"r2">>), device_type |-> Some("eos"),
     username |-> Some("carol"), password |-> Some("pwC")] }

\* An entry whose device type has no napalm driver.
NoDriverRecord ==
  [hostname |-> Some(<<"r3">>), device_type |-> Some("bogus"),
   username |-> None, password |-> Some("pwD")]

\* An entry without a hostname.
NoHostnameRecord ==
  [hostname |-> None, device_type |-> Some("ios"),
   username |-> None, password |-> None]

\* An entry without a device_type.
NoDeviceTypeRecord ==
  [hostname |-> Some(<<"r4">>), device_type |-> None,
   username |-> None, password |-> None]

DeviceRecords ==
  ValidRecords \cup {NoDriverRecord, NoHostnameRecord, NoDeviceTypeRecord}

\* The entries of the inventories that are run on a pool of several workers.
PoolRecords ==
  {r \in ValidRecords : r.password = None}
    \cup {NoDriverRecord, NoHostnameRecord}

\* What a device answers to get_facts: a dict that may lack 'hostname' and
\* 'vendor'.
FactsReplies ==
  { [hostname |-> Some(<<"core1">>), vendor |-> Some("Cisco")],
    [hostname |-> None, vendor |-> None] }

\* Running configurations a device returns: texts of one character, one of
\* them outside ASCII.
ConfigTexts == { <<"a">>, <<"e-acute">> }

\* Values of --tag, as sequences of characters: none, a plain tag, a tag
\* with a space and a tag with a tab.
Tags == { None, Some(<<"n", "1">>), Some(<<"n", " ", "1">>),
          Some(<<"n", "\t", "1">>) }

RECURSIVE Encode(_)
\* The bytes a text-mode file object writes for a text (UTF-8).
Encode(text) ==
  IF text = <<>> THEN <<>>
  ELSE (IF Head(text) = "e-acute" THEN <<195, 169>> ELSE <<97>>)
       \o Encode(Tail(text))

\* A write of `bytes` at offset 0 of a file holding `old` (the file was
\* opened with mode 'w', without O_APPEND).
Overlay(old, bytes) ==
  IF Len(bytes) >= Len(old) THEN bytes
  ELSE bytes \o SubSeq(old, Len(bytes) + 1, Len(old))

\* ------------------------------------------------------------------- state

VARIABLES
  ctx,             \* NCCContext: workers, tag, devices, silent, debug, username, password
  inventory_file,  \* the content of the devices file
  inventory,       \* ctx.inventory
  main,            \* position of the main thread
  tasks,           \* per inventory index: the future and the frame of backup_device
  collected,       \* the futures as_completed has yielded, in order
  results,         \* the list `results` of backup_all_devices
  progress,        \* units the progress bar was advanced by
  fs,              \* the files under ctx.directory: path -> bytes
  now,             \* the wall clock, in seconds
  exit_status,     \* the exit status of the process, None while it runs
  summary          \* the counts print_summary computed, None before it ran

vars == <<ctx, inventory_file, inventory, main, tasks, collected, results,
          progress, fs, now, exit_status, summary>>

\* ctx.directory
Directory == "ncc_backups"

N == Len(inventory_file)

\* The frame of a task that was not started yet.
NewTask ==
  [st |-> "unsubmitted", pc |-> "start", result |-> None, conn |-> None,
   calls |-> <<>>, facts |-> None, config_data |-> None,
   timestamp |-> None, filename |-> None, exc |-> None]

\* The options of a plain run: one worker, no tag, no fallback credentials,
\* reporting on.
PlainContext ==
  [workers |-> 1, tag |-> None, devices |-> Some("devices.json"),
   silent |-> FALSE, debug |-> FALSE, username |-> None, password |-> None]

\* The runs explored: inventories of up to MaxDevices entries on pools of up
\* to MaxWorkers workers under plain options, inventories of MaxDevices valid
\* entries on MaxWorkers workers under a tag, and inventories of one entry
\* under every combination of options.
Scenarios ==
  { [ctx |-> [PlainContext EXCEPT !.workers = k], inventory |-> inv] :
      k \in 1..MaxWorkers,
      inv \in UNION {[1..n -> PoolRecords] : n \in 1..MaxDevices} }
  \cup
  { [ctx |-> [PlainContext EXCEPT !.workers = MaxWorkers,
                                 !.tag = Some(<<"n", "1">>)],
     inventory |-> inv] :
      inv \in [1..MaxDevices -> PoolRecords \cap ValidRecords] }
  \cup
  { [ctx |-> c, inventory |-> <<r>>] :
      c \in [workers : {0, 1}, tag : Tags,
             devices : {None, Some("devices.json")},
             silent : BOOLEAN, debug : BOOLEAN,
             username : {None, Some("bob")}, password : {None, Some("pwB")}],
      r \in DeviceRecords }

Init ==
  /\ \E s \in Scenarios : ctx = s.ctx /\ inventory_file = s.inventory
  /\ inventory = <<>>
  /\ main = "backup"
  /\ tasks = [i \in 1..Len(inventory_file) |-> NewTask]
  /\ collected = <<>>
  /\ results = <<>>
  /\ progress = 0
  /\ fs = <<>>
  /\ now = 1
  /\ exit_status = None
  /\ summary = None

\* ------------------------------------------------------- the backup command

\* sys.exit(code), also through the handler of lines 146-149.
Exit(code) ==
  /\ main' = "exited"
  /\ exit_status' = Some(code)

\* Lines 73-101: the tag and the devices file are checked.
backup_CheckOptions ==
  /\ main = "backup"
  /\ IF TruthySeq(ctx.tag) /\ " " \in Range(Val(ctx.tag))
       THEN Exit(1)
       ELSE IF ctx.devices = None
         THEN Exit(1)
         ELSE main' = "load" /\ UNCHANGED exit_status
  /\ UNCHANGED <<ctx, inventory_file, inventory, tasks, collected, results,
                 progress, fs, now, summary>>

\* load_inventory raises ValueError for the first entry without a
\* device_type (lines 159-162); a missing hostname is not looked at.
load_inventory_Raises(inv) ==
  \E k \in 1..Len(inv) : ~Truthy(inv[k].device_type)

\* Line 104.
backup_LoadInventory ==
  /\ main = "load"
  /\ IF load_inventory_Raises(inventory_file)
       THEN Exit(1) /\ UNCHANGED inventory
       ELSE /\ inventory' = inventory_file
            /\ main' = "credentials"
            /\ UNCHANGED exit_status
  /\ UNCHANGED <<ctx, inventory_file, tasks, collected, results, progress,
                 fs, now, summary>>

\* A resolution that gives every device the command-line credentials when
\* both are supplied.
ResolveCredentials_Always(device, username, password) ==
  IF Truthy(username) /\ Truthy(password)
    THEN [device EXCEPT !.username = username, !.password = password]
    ELSE device

\* Lines 107-112 for one device.
ResolveCredentials(device, username, password) ==
  IF /\ Truthy(username) /\ Truthy(password)
     /\ (device.username = None \/ device.password = None)
    THEN [device EXCEPT !.username = username, !.password = password]
    ELSE device

\* Lines 106-112.
backup_Credentials ==
  /\ main = "credentials"
  /\ inventory' = [k \in 1..Len(inventory) |->
                     ResolveCredentials(inventory[k], ctx.username, ctx.password)]
  /\ main' = "dispatch"
  /\ UNCHANGED <<ctx, inventory_file, tasks, collected, results, progress,
                 fs, now, exit_status, summary>>

\* -------------------------------------------------------- backup_all_devices

Submitted == {i \in 1..N : tasks[i].st # "unsubmitted"}

Running == {i \in 1..N : tasks[i].st = "running"}

\* The future of task i is finished: backup_device returned or raised.
Terminal(i) == tasks[i].st \in {"done", "raised"}

\* Reporting is on: neither --debug nor --silent (lines 193, 212, 223).
Reporting == ~ctx.debug /\ ~ctx.silent

\* Lines 189-196: ThreadPoolExecutor(max_workers) raises ValueError for a
\* max_workers of zero or below.
backup_all_devices_Enter ==
  /\ main = "dispatch"
  /\ IF ctx.workers <= 0
       THEN Exit(1)
       ELSE main' = "submit" /\ UNCHANGED exit_status
  /\ UNCHANGED <<ctx, inventory_file, inventory, tasks, collected, results,
                 progress, fs, now, summary>>

\* Lines 198-201, one turn of the dict comprehension: the task is submitted,
\* then device['hostname'] is evaluated and raises KeyError when the entry
\* has no hostname.  The exception leaves through the executor's __exit__.
backup_all_devices_Submit(i) ==
  /\ main = "submit"
  /\ tasks[i].st = "unsubmitted"
  /\ \A j \in 1..(i - 1) : tasks[j].st # "unsubmitted"
  /\ tasks' = [tasks EXCEPT ![i].st = "pending"]
  /\ main' = IF inventory[i].hostname = None THEN "unwind"
             ELSE IF i = N THEN "collect" ELSE "submit"
  /\ UNCHANGED <<ctx, inventory_file, inventory, collected, results,
                 progress, fs, now, exit_status, summary>>

\* A handler that builds the failed result without the text of the error.
ErrorResult_NoText(hostname, text) ==
  [hostname |-> hostname, device_type |-> None, success |-> FALSE,
   filename |-> None, error |-> None, vendor |-> None, size |-> None]

\* The result the orchestrator builds for a future that raised (lines 218-222).
ErrorResult(hostname, text) ==
  [hostname |-> hostname, device_type |-> None, success |-> FALSE,
   filename |-> None, error |-> Some(text), vendor |-> None, size |-> None]

\* The loop with a handler that logs the error of a future that raised and
\* appends nothing.
Collect_DropsRaised(i) ==
  /\ main = "collect"
  /\ Terminal(i)
  /\ i \notin Range(collected)
  /\ collected' = Append(collected, i)
  /\ results' = IF tasks[i].st = "done"
                  THEN Append(results, Val(tasks[i].result))
                  ELSE results
  /\ progress' = IF Reporting THEN progress + 1 ELSE progress
  /\ UNCHANGED <<ctx, inventory_file, inventory, main, tasks, fs, now,
                 exit_status, summary>>

\* The loop with a handler that appends the failed result and leaves the
\* progress bar alone.
Collect_NoAdvanceOnError(i) ==
  /\ main = "collect"
  /\ Terminal(i)
  /\ i \notin Range(collected)
  /\ collected' = Append(collected, i)
  /\ results' = Append(results,
                  IF tasks[i].st = "done" THEN Val(tasks[i].result)
                  ELSE ErrorResult(Val(inventory[i].hostname), Val(tasks[i].exc)))
  /\ progress' = IF Reporting /\ tasks[i].st = "done" THEN progress + 1
                 ELSE progress
  /\ UNCHANGED <<ctx, inventory_file, inventory, main, tasks, fs, now,
                 exit_status, summary>>

\* Lines 204-225, one turn of the as_completed loop for the finished future i.
backup_all_devices_Collect(i) ==
  /\ main = "collect"
  /\ Terminal(i)
  /\ i \notin Range(collected)
  /\ collected' = Append(collected, i)
  /\ results' = Append(results,
                  IF tasks[i].st = "done" THEN Val(tasks[i].result)
                  ELSE ErrorResult(Val(inventory[i].hostname), Val(tasks[i].exc)))
  /\ progress' = IF Reporting THEN progress + 1 ELSE progress
  /\ UNCHANGED <<ctx, inventory_file, inventory, main, tasks, fs, now,
                 exit_status, summary>>

\* An orchestrator that gives up at the first failed result it collects.
Return_OnFirstFailure ==
  /\ main = "collect"
  /\ \/ Len(collected) = N /\ \A i \in 1..N : Terminal(i)
     \/ \E k \in 1..Len(results) : ~results[k].success
  /\ main' = "summary"
  /\ UNCHANGED <<ctx, inventory_file, inventory, tasks, collected, results,
                 progress, fs, now, exit_status, summary>>

\* as_completed is exhausted and the executor's __exit__ has joined the
\* workers: line 227.
backup_all_devices_Return ==
  /\ main = "collect"
  /\ Len(collected) = N
  /\ \A i \in 1..N : Terminal(i)
  /\ main' = "summary"
  /\ UNCHANGED <<ctx, inventory_file, inventory, tasks, collected, results,
                 progress, fs, now, exit_status, summary>>

\* The KeyError of line 199 on its way out: the executor's __exit__ waits for
\* every submitted task (shutdown(wait=True)), then the handler of lines
\* 146-149 exits with status 1.
backup_all_devices_Unwind ==
  /\ main = "unwind"
  /\ \A i \in Submitted : Terminal(i)
  /\ Exit(1)
  /\ UNCHANGED <<ctx, inventory_file, inventory, tasks, collected, results,
                 progress, fs, now, summary>>

\* print_summary raises KeyError at line 357 for a failed result without a
\* 'device_type' key.
print_summary_Raises(rs) ==
  \E k \in 1..Len(rs) : ~rs[k].success /\ rs[k].device_type = None

RECURSIVE vendor_stats_AllResults(_)
\* A grouping that counts every result under its vendor, failed ones too.
vendor_stats_AllResults(rs) ==
  IF rs = <<>> THEN <<>>
  ELSE LET stats == vendor_stats_AllResults(SubSeq(rs, 1, Len(rs) - 1))
           vendor == Get(rs[Len(rs)].vendor, "unknown")
       IN  IF vendor \notin DOMAIN stats THEN (vendor :> 1) @@ stats
           ELSE [stats EXCEPT ![vendor] = @ + 1]

RECURSIVE vendor_stats(_)
\* Lines 321-327: the dict vendor_stats after the loop has gone through rs;
\* the empty dict is the function with the empty domain.
vendor_stats(rs) ==
  IF rs = <<>> THEN <<>>
  ELSE LET stats == vendor_stats(SubSeq(rs, 1, Len(rs) - 1))
           result == rs[Len(rs)]
           vendor == Get(result.vendor, "unknown")
       IN  IF result.success
             THEN IF vendor \notin DOMAIN stats THEN (vendor :> 1) @@ stats
                  ELSE [stats EXCEPT ![vendor] = @ + 1]
             ELSE stats

RECURSIVE successful(_)
\* Line 317: sum(1 for r in results if r['success']).
successful(rs) ==
  IF rs = <<>> THEN 0
  ELSE (IF Head(rs).success THEN 1 ELSE 0) + successful(Tail(rs))

\* Lines 316-327: the counts print_summary computes before it prints.
print_summary_Counts(rs) ==
  [total |-> Len(rs),
   successful |-> successful(rs),
   failed |-> Len(rs) - successful(rs),
   vendor_stats |-> vendor_stats(rs)]

\* Lines 136-149: the summary, and the end of the command.  print_summary
\* is called when reporting is on; its counts are computed, and the first
\* table printed, before line 357 can raise.
backup_Summary ==
  /\ main = "summary"
  /\ summary' = IF Reporting THEN Some(print_summary_Counts(results))
                ELSE summary
  /\ IF Reporting /\ print_summary_Raises(results) THEN Exit(1) ELSE Exit(0)
  /\ UNCHANGED <<ctx, inventory_file, inventory, tasks, collected, results,
                 progress, fs, now>>

\* ------------------------------------------------------- the worker threads

\* A pool that starts a thread for every submitted task.
Run_ThreadPerTask(i) ==
  /\ tasks[i].st = "pending"
  /\ \A j \in 1..(i - 1) : tasks[j].st # "pending"
  /\ tasks' = [tasks EXCEPT ![i].st = "running"]
  /\ UNCHANGED <<ctx, inventory_file, inventory, main, collected, results,
                 progress, fs, now, exit_status, summary>>

\* A pool that starts a queued item only when no worker is busy.
Run_WhenPoolIdle(i) ==
  /\ tasks[i].st = "pending"
  /\ \A j \in 1..(i - 1) : tasks[j].st # "pending"
  /\ Running = {}
  /\ tasks' = [tasks EXCEPT ![i].st = "running"]
  /\ UNCHANGED <<ctx, inventory_file, inventory, main, collected, results,
                 progress, fs, now, exit_status, summary>>

\* A worker thread of the pool takes the next work item of the queue: there
\* are at most max_workers threads, each running one item at a time, and the
\* queue is first in, first out.
ThreadPoolExecutor_Run(i) ==
  /\ tasks[i].st = "pending"
  /\ \A j \in 1..(i - 1) : tasks[j].st # "pending"
  /\ Cardinality(Running) < ctx.workers
  /\ tasks' = [tasks EXCEPT ![i].st = "running"]
  /\ UNCHANGED <<ctx, inventory_file, inventory, main, collected, results,
                 progress, fs, now, exit_status, summary>>

\* The seconds of the wall clock pass while tasks run.
Tick ==
  /\ now < MaxClock
  /\ Running # {}
  /\ now' = now + 1
  /\ UNCHANGED <<ctx, inventory_file, inventory, main, tasks, collected,
                 results, progress, fs, exit_status, summary>>

\* ------------------------------------------------------------ backup_device

\* The frame of task i changes to t; nothing outside the frame does.
Frame(i, t) ==
  /\ tasks' = [tasks EXCEPT ![i] = t]
  /\ UNCHANGED <<ctx, inventory_file, inventory, main, collected, results,
                 progress, fs, now, exit_status, summary>>

At(i, pc) == tasks[i].st = "running" /\ tasks[i].pc = pc

\* The step `name` was called and completed.
Called(t, name) == [t EXCEPT !.calls = Append(@, name)]

\* A handler that logs the error and records nothing in the result.
Except_Silent(t, text) == [t EXCEPT !.pc = "finally"]

\* The handler of lines 300-304: the error text is recorded, then the
\* finally clause runs.
Except(t, text) ==
  [t EXCEPT !.result = Some([Val(@) EXCEPT !.error = Some(text)]),
            !.pc = "finally"]

\* datetime.now().strftime("%Y%m%d_%H%M%S"): the text of a second.
Strftime(second) ==
  <<<<"0", "1", "2", "3", "4", "5", "6", "7", "8", "9">>[second + 1]>>

\* A path without the per-host directory and host prefix: every artifact in
\* the output directory, named by tag and timestamp.
ArtifactPath_NoHostname(hostname, tag, timestamp) ==
  [dir |-> <<Directory>>,
   name |-> (IF TruthySeq(tag) THEN <<Val(tag)>> ELSE <<>>) \o <<timestamp>>,
   suffix |-> "cfg"]

\* A file name with the tag appended after the timestamp.
ArtifactPath_TagLast(hostname, tag, timestamp) ==
  [dir |-> <<Directory, hostname>>,
   name |-> <<hostname, timestamp>>
            \o (IF TruthySeq(tag) THEN <<Val(tag)>> ELSE <<>>),
   suffix |-> "cfg"]

\* Lines 279-285: backup_dir / f"{hostname}[_{tag}]_{timestamp}.cfg", the
\* name as the sequence of the segments that the underscores join.
ArtifactPath(hostname, tag, timestamp) ==
  [dir |-> <<Directory, hostname>>,
   name |-> <<hostname>> \o (IF TruthySeq(tag) THEN <<Val(tag)>> ELSE <<>>)
            \o <<timestamp>>,
   suffix |-> "cfg"]

\* Lines 241-254: the lookups that precede the try block, and the empty
\* result.  A missing hostname or a device type without a napalm driver
\* raises out of backup_device.
backup_device_Begin(i) ==
  /\ At(i, "start")
  /\ LET device == inventory[i]
         t == tasks[i]
     IN  IF device.hostname = None
           THEN Frame(i, [t EXCEPT !.st = "raised", !.pc = "end",
                                   !.exc = Some(KeyErrorHostname)])
         ELSE IF Val(device.device_type) \notin NapalmDrivers
           THEN Frame(i, [t EXCEPT !.st = "raised", !.pc = "end",
                                   !.exc = Some(NoDriverError)])
         ELSE Frame(i, [t EXCEPT
                !.pc = "construct",
                !.result = Some([hostname |-> Val(device.hostname),
                                 device_type |-> device.device_type,
                                 success |-> FALSE, filename |-> None,
                                 error |-> None, vendor |-> None,
                                 size |-> None])])

\* Lines 257-263: the driver object is built with the device's credentials.
backup_device_Construct(i) ==
  /\ At(i, "construct")
  /\ LET device == inventory[i]
         t == tasks[i]
     IN  \/ Frame(i, [t EXCEPT
                !.conn = Some([hostname |-> Val(device.hostname),
                               username |-> device.username,
                               password |-> device.password]),
                !.pc = "open"])
         \/ Frame(i, Except(t, ConstructError))

\* A task that tries conn.open() a second time after a first failure.
Open_RetriesOnce(i) ==
  /\ At(i, "open")
  /\ LET t == tasks[i]
     IN  \/ Frame(i, [Called(t, "open") EXCEPT !.pc = "get_facts"])
         \/ IF "open!" \in Range(t.calls)
              THEN Frame(i, Except(Called(t, "open!"), OpenError))
              ELSE Frame(i, Called(t, "open!"))

\* Line 264.  The session's log of calls gets "open", or "open!" when the
\* call raises; the later steps log themselves the same way.
backup_device_Open(i) ==
  /\ At(i, "open")
  /\ LET t == tasks[i]
     IN  \/ Frame(i, [Called(t, "open") EXCEPT !.pc = "get_facts"])
         \/ Frame(i, Except(Called(t, "open!"), OpenError))

\* The calls into the driver that wait for the device: conn.open(),
\* conn.get_facts() and conn.get_config().
DriverCalls == {"open", "get_facts", "get_config"}

\* Lines 264-275: a call into the driver that never returns.  backup_device
\* sets no timeout, so the task stays in the call and keeps its worker.
backup_device_Hang(i) ==
  /\ tasks[i].st = "running"
  /\ tasks[i].pc \in DriverCalls
  /\ Frame(i, [tasks[i] EXCEPT !.pc = "hung"])

\* A task that logs a failure of get_facts and goes on to get_config.
GetFacts_ContinuesOnError(i) ==
  /\ At(i, "get_facts")
  /\ LET t == tasks[i]
         hostname == Val(inventory[i].hostname)
     IN  \/ \E facts \in FactsReplies :
              Frame(i, [Called(t, "get_facts") EXCEPT
                !.facts = Some(facts),
                !.result = Some([Val(@) EXCEPT
                   !.vendor = Some(Get(facts.vendor, "unknown")),
                   !.hostname = Get(facts.hostname, <<Head(hostname)>>)]),
                !.pc = "get_config"])
         \/ Frame(i, [Called(t, "get_facts!") EXCEPT !.pc = "get_config"])

\* Lines 267-271: the facts fill the result, and the device's own hostname,
\* or else the first label of the inventory hostname, replaces
\* result['hostname'].  'model' and 'os_version' are set the way 'vendor' is
\* and are left out.
backup_device_GetFacts(i) ==
  /\ At(i, "get_facts")
  /\ LET t == tasks[i]
         hostname == Val(inventory[i].hostname)
     IN  \/ \E facts \in FactsReplies :
              Frame(i, [Called(t, "get_facts") EXCEPT
                !.facts = Some(facts),
                !.result = Some([Val(@) EXCEPT
                   !.vendor = Some(Get(facts.vendor, "unknown")),
                   !.hostname = Get(facts.hostname, <<Head(hostname)>>)]),
                !.pc = "get_config"])
         \/ Frame(i, Except(Called(t, "get_facts!"), FactsError))

\* Lines 274-275.
backup_device_GetConfig(i) ==
  /\ At(i, "get_config")
  /\ LET t == tasks[i]
     IN  \/ \E text \in ConfigTexts :
              Frame(i, [Called(t, "get_config") EXCEPT
                !.config_data = Some(text), !.pc = "prepare"])
         \/ Frame(i, Except(Called(t, "get_config!"), ConfigError))

\* A task that records the file name in the result as soon as it is
\* computed, before the file is opened.
Prepare_RecordsFilename(i) ==
  /\ At(i, "prepare")
  /\ LET t == tasks[i]
         timestamp == Strftime(now)
         path == ArtifactPath(Val(t.result).hostname, ctx.tag, timestamp)
     IN  \/ Frame(i, [t EXCEPT
                !.timestamp = Some(timestamp),
                !.filename = Some(path),
                !.result = Some([Val(@) EXCEPT !.filename = Some(path)]),
                !.pc = "open_file"])
         \/ Frame(i, Except([t EXCEPT !.timestamp = Some(timestamp)],
                            MkdirError))

\* Lines 276-285: the timestamp, the per-host directory and the file name.
backup_device_Prepare(i) ==
  /\ At(i, "prepare")
  /\ LET t == tasks[i]
         timestamp == Strftime(now)
     IN  \/ Frame(i, [t EXCEPT
                !.timestamp = Some(timestamp),
                !.filename = Some(ArtifactPath(Val(t.result).hostname,
                                               ctx.tag, timestamp)),
                !.pc = "open_file"])
         \/ Frame(i, Except([t EXCEPT !.timestamp = Some(timestamp)],
                            MkdirError))

\* What is left alone by a step that touches the file system.
FrameFs(i, t) ==
  /\ tasks' = [tasks EXCEPT ![i] = t]
  /\ UNCHANGED <<ctx, inventory_file, inventory, main, collected, results,
                 progress, now, exit_status, summary>>

\* Line 288: open(filename, 'w') creates the file or truncates it.
backup_device_OpenFile(i) ==
  /\ At(i, "open_file")
  /\ LET t == tasks[i]
         path == Val(t.filename)
     IN  \/ /\ FrameFs(i, [Called(t, "open_file") EXCEPT !.pc = "write"])
            /\ fs' = (path :> <<>>) @@ fs
         \/ Frame(i, Except(Called(t, "open_file!"), OpenFileError))

\* Line 289 and the end of the with block: the text is written at offset 0
\* and the file is closed.  A failed write leaves the file as it was opened.
backup_device_Write(i) ==
  /\ At(i, "write")
  /\ LET t == tasks[i]
         path == Val(t.filename)
     IN  \/ /\ FrameFs(i, [Called(t, "write") EXCEPT !.pc = "getsize"])
            /\ fs' = [fs EXCEPT ![path] = Overlay(@, Encode(Val(t.config_data)))]
         \/ Frame(i, Except(Called(t, "write!"), WriteError))

\* The size taken as len(config_data['running']), the number of characters.
GetSize_Characters(i) ==
  /\ At(i, "getsize")
  /\ LET t == tasks[i]
         path == Val(t.filename)
     IN  Frame(i, [t EXCEPT
           !.result = Some([Val(@) EXCEPT !.filename = Some(path),
                                          !.size = Some(Len(Val(t.config_data))),
                                          !.success = TRUE]),
           !.pc = "finally"])

\* Lines 291-298: the size is read back from the file system and the result
\* becomes a success.
backup_device_GetSize(i) ==
  /\ At(i, "getsize")
  /\ LET t == tasks[i]
         path == Val(t.filename)
     IN  Frame(i, [t EXCEPT
           !.result = Some([Val(@) EXCEPT !.filename = Some(path),
                                          !.size = Some(Len(fs[path])),
                                          !.success = TRUE]),
           !.pc = "finally"])

\* The frame of a task that returned (line 311): the future holds the
\* result.  The locals are kept as they were at the return.
Returned(t) == [t EXCEPT !.st = "done", !.pc = "end"]

CloseError == "close failed"

\* A finally clause whose handler records the error of close in the result.
Close_RecordsError(i) ==
  /\ At(i, "finally")
  /\ LET t == tasks[i]
     IN  IF t.conn = None
           THEN Frame(i, Returned(t))
           ELSE \/ Frame(i, Returned(Called(t, "close")))
                \/ Frame(i, Returned([Called(t, "close!") EXCEPT
                       !.result = Some([Val(@) EXCEPT
                                          !.error = Some(CloseError)])]))

\* Lines 305-311: conn.close() under a bare except.  When the driver object
\* was never built, conn is unbound and the NameError is swallowed too.
backup_device_Close(i) ==
  /\ At(i, "finally")
  /\ LET t == tasks[i]
     IN  IF t.conn = None
           THEN Frame(i, Returned(t))
           ELSE \/ Frame(i, Returned(Called(t, "close")))
                \/ Frame(i, Returned(Called(t, "close!")))

\* ------------------------------------------------------------ specification

Next ==
  \/ backup_CheckOptions
  \/ backup_LoadInventory
  \/ backup_Credentials
  \/ backup_all_devices_Enter
  \/ \E i \in 1..N : backup_all_devices_Submit(i)
  \/ \E i \in 1..N : backup_all_devices_Collect(i)
  \/ backup_all_devices_Return
  \/ backup_all_devices_Unwind
  \/ backup_Summary
  \/ \E i \in 1..N : ThreadPoolExecutor_Run(i)
  \/ Tick
  \/ \E i \in 1..N : backup_device_Begin(i)
  \/ \E i \in 1..N : backup_device_Construct(i)
  \/ \E i \in 1..N : backup_device_Open(i)
  \/ \E i \in 1..N : backup_device_Hang(i)
  \/ \E i \in 1..N : backup_device_GetFacts(i)
  \/ \E i \in 1..N : backup_device_GetConfig(i)
  \/ \E i \in 1..N : backup_device_Prepare(i)
  \/ \E i \in 1..N : backup_device_OpenFile(i)
  \/ \E i \in 1..N : backup_device_Write(i)
  \/ \E i \in 1..N : backup_device_GetSize(i)
  \/ \E i \in 1..N : backup_device_Close(i)

Spec == Init /\ [][Next]_vars

\* A step of the worker thread that runs task i: the next statement of
\* backup_device.
backup_device_Step(i) ==
  \/ backup_device_Begin(i)
  \/ backup_device_Construct(i)
  \/ backup_device_Open(i)
  \/ backup_device_GetFacts(i)
  \/ backup_device_GetConfig(i)
  \/ backup_device_Prepare(i)
  \/ backup_device_OpenFile(i)
  \/ backup_device_Write(i)
  \/ backup_device_GetSize(i)
  \/ backup_device_Close(i)

\* The runs explored with fairness: inventories of MaxDevices entries that
\* give no credentials, on pools of up to MaxWorkers workers.
FairScenarios ==
  { s \in Scenarios :
      /\ s.ctx = [PlainContext EXCEPT !.workers = s.ctx.workers]
      /\ Len(s.inventory) = MaxDevices
      /\ \A k \in 1..Len(s.inventory) :
           s.inventory[k].username = None /\ s.inventory[k].password = None }

FairInit ==
  /\ Init
  /\ \E s \in FairScenarios : ctx = s.ctx /\ inventory_file = s.inventory

\* The operating system schedules every runnable thread: an idle worker of
\* the pool takes the next queued item, and a worker that is inside
\* backup_device and not waiting in a driver call executes its next
\* statement.
FairSpec ==
  /\ FairInit /\ [][Next]_vars
  /\ \A i \in 1..MaxDevices :
       /\ WF_vars(i <= N /\ ThreadPoolExecutor_Run(i))
       /\ WF_vars(i <= N /\ backup_device_Step(i))

\* ------------------------------------------------------------------- claims

\* Every entry of the devices file has a hostname and a device_type.
ValidInventory ==
  \A k \in 1..N : /\ inventory_file[k].hostname # None
                  /\ Truthy(inventory_file[k].device_type)

\* The result that stands for the finished future i.
OutcomeOf(i) ==
  IF tasks[i].st = "done" THEN Val(tasks[i].result)
  ELSE ErrorResult(Val(inventory[i].hostname), Val(tasks[i].exc))

\* C1: when backup_all_devices has returned (the main thread stands at the
\* summary), the result list holds exactly N results, one for each device of
\* the inventory, none lost and none twice: the futures collected are the N
\* submitted ones, each once, and the k-th result is the outcome of the k-th
\* future collected.
C1_ExactlyNResults ==
  main = "summary" =>
    /\ ValidInventory /\ ctx.workers >= 1
    /\ Len(results) = N
    /\ Len(collected) = N
    /\ Range(collected) = 1..N
    /\ \A k \in 1..N : results[k] = OutcomeOf(collected[k])

\* C1 witness: a run of two devices on two workers has returned with one
\* successful result and one result built for a future that raised.
C1_Witness ==
  /\ main = "summary" /\ N = 2 /\ ctx.workers = 2
  /\ \E i, j \in 1..N :
       /\ tasks[i].st = "raised"
       /\ tasks[j].st = "done" /\ Val(tasks[j].result).success
  /\ Len(results) = 2

\* C2 (as claimed): backup_device never raises to the orchestrator; for an
\* entry that has a hostname, every error, the failed driver lookup
\* included, comes back as a failed result.
C2_NeverRaises ==
  \A i \in 1..N :
    (tasks[i].st # "unsubmitted" /\ inventory[i].hostname # None) =>
      /\ tasks[i].st # "raised"
      /\ tasks[i].st = "done" =>
           \/ Val(tasks[i].result).success
           \/ /\ Val(tasks[i].result).error # None
              /\ Val(tasks[i].result).device_type # None

\* C3: in every state the number of running tasks is at most ctx.workers,
\* and every other submitted task is pending in the queue or finished.
C3_BoundedRunning ==
  /\ Cardinality(Running) <= ctx.workers
  /\ \A i \in Submitted \ Running :
       tasks[i].st = "pending" \/ Terminal(i)

\* C3 witness: the pool is full (one worker, one running task) while another
\* submitted task waits in the queue.
C3_Witness ==
  /\ ctx.workers = 1
  /\ Cardinality(Running) = 1
  /\ \E i \in 1..N : tasks[i].st = "pending"

\* C4: backup_all_devices returns only after every task of the inventory was
\* submitted and has finished (returned or raised, its frame at the end of
\* backup_device); and when the main thread leaves on an exception, every
\* task submitted till then has finished too.
C4_ReturnsAfterAll ==
  /\ main = "summary" =>
       /\ Submitted = 1..N
       /\ \A i \in 1..N : Terminal(i) /\ tasks[i].pc = "end"
  /\ main = "exited" =>
       \A i \in Submitted : Terminal(i) /\ tasks[i].pc = "end"

\* C4 witness: the orchestrator has returned from a run in which the first
\* result collected was a failure and a task that finished later succeeded.
C4_Witness ==
  /\ main = "summary" /\ N = 2
  /\ ~results[1].success
  /\ results[2].success

\* Both fallback credentials were given on the command line.
FallbackGiven == Truthy(ctx.username) /\ Truthy(ctx.password)

\* C5 (as claimed): with fallback credentials (u, p), the driver of a device
\* whose record has a username and no password is built with
\* (record.username, p), that of a record with neither with (u, p), and a
\* field the record has is never replaced.
C5_FillsOnlyMissing ==
  \A i \in 1..N :
    (FallbackGiven /\ tasks[i].conn # None) =>
      LET record == inventory_file[i]
          conn == Val(tasks[i].conn)
      IN  /\ conn.username = IF record.username # None THEN record.username
                             ELSE ctx.username
          /\ conn.password = IF record.password # None THEN record.password
                             ELSE ctx.password

\* The steps after open: the two fetches and the file steps, completed or
\* failed.
StepsAfterOpen ==
  {"get_facts", "get_facts!", "get_config", "get_config!",
   "open_file", "open_file!", "write", "write!"}

\* What C6 says of a result r.
FailedAtOpen(r) ==
  /\ ~r.success
  /\ r.error = Some(OpenError) /\ Val(r.error) # ""
  /\ r.filename = None /\ r.size = None

\* C6: a task whose open failed has, from then on, a result with success
\* false, the error text of the failed open and no artifact path or size; it
\* calls neither get_facts nor get_config, computes no file name and opens
\* or writes no file; the result the orchestrator collects for it is that
\* result.
C6_OpenFailure ==
  \A i \in 1..N :
    "open!" \in Range(tasks[i].calls) =>
      /\ FailedAtOpen(Val(tasks[i].result))
      /\ Range(tasks[i].calls) \cap StepsAfterOpen = {}
      /\ tasks[i].filename = None
      /\ tasks[i].st # "raised"
      /\ \A k \in 1..Len(collected) :
           collected[k] = i => FailedAtOpen(results[k])

\* C6 witness: a task whose open failed has returned and its result was
\* collected.
C6_Witness ==
  \E i \in 1..N :
    /\ "open!" \in Range(tasks[i].calls)
    /\ tasks[i].st = "done"
    /\ i \in Range(collected)

\* The task went through open, get_facts, get_config and the write without
\* error and has returned.
WroteArtifact(i) ==
  /\ tasks[i].st = "done"
  /\ "write" \in Range(tasks[i].calls)

\* No other task opened the file of task i for writing.
SoleWriter(i) ==
  \A j \in 1..N \ {i} :
    "open_file" \in Range(tasks[j].calls) =>
      tasks[j].filename # tasks[i].filename

\* What C7 says of the result of a task that wrote its artifact.
SizeIsBytesWritten(i) ==
  LET r == Val(tasks[i].result)
  IN  /\ r.success
      /\ r.filename # None /\ r.filename = tasks[i].filename
      /\ r.size = Some(Len(Encode(Val(tasks[i].config_data))))

\* C7 (as claimed): for every inventory and interleaving, a task that wrote
\* its artifact without error has success true, an artifact path, and a size
\* equal to the byte length of the text it wrote.
C7_SizeIsBytesWritten ==
  \A i \in 1..N : WroteArtifact(i) => SizeIsBytesWritten(i)

\* C7 (amended): the same, for a task whose artifact path no other task of
\* the run opens for writing.
C7_SizeIsBytesWrittenSoleWriter ==
  \A i \in 1..N : (WroteArtifact(i) /\ SoleWriter(i)) => SizeIsBytesWritten(i)

\* C7 witness: two tasks ran on two workers and wrote different files; one
\* wrote a text whose byte length exceeds its character count.
C7_Witness ==
  /\ N = 2 /\ ctx.workers = 2
  /\ WroteArtifact(1) /\ WroteArtifact(2)
  /\ SoleWriter(1) /\ SoleWriter(2)
  /\ Val(tasks[1].result).size = Some(2)
  /\ Len(Val(tasks[1].config_data)) = 1

\* C8 (as claimed): when an entry of the devices file lacks hostname or
\* device_type, no driver is built or opened for any entry and no file is
\* written.
C8_AbortsBeforeAnyBackup ==
  (\E k \in 1..N : \/ inventory_file[k].hostname = None
                   \/ inventory_file[k].device_type = None) =>
    /\ \A i \in 1..N : tasks[i].conn = None /\ tasks[i].calls = <<>>
    /\ DOMAIN fs = {}

\* The options the run needs are given and well formed.
ValidConfiguration ==
  /\ ctx.workers >= 1
  /\ ctx.devices # None
  /\ ctx.tag # None => Range(Val(ctx.tag)) \cap {" ", "\t"} = {}

\* C9 (as claimed): with a valid inventory and configuration the command
\* never ends with a non-zero exit status, in any reporting mode.
C9_ExitsZero ==
  (ValidInventory /\ ValidConfiguration) => exit_status # Some(1)

CloseCalls == {"close", "close!"}

CloseCount(calls) ==
  Cardinality({k \in 1..Len(calls) : calls[k] \in CloseCalls})

OpenAttempted(calls) == \E k \in 1..Len(calls) : calls[k] \in {"open", "open!"}

\* C10: in every step, for every task: close is never called twice; a task
\* that attempted open and has returned called close exactly once, as its
\* last step; a task that is still running has not called close; the step of
\* the finally clause, whether close raises or not, returns from the task
\* with the result as it was; and the result of a returned task never
\* changes.
C10_CloseOnce ==
  [][\A i \in 1..N :
       LET t == tasks[i]
           u == tasks'[i]
       IN  /\ CloseCount(u.calls) <= 1
           /\ (u.st = "done" /\ OpenAttempted(u.calls)) =>
                /\ CloseCount(u.calls) = 1
                /\ u.calls[Len(u.calls)] \in CloseCalls
           /\ u.st = "running" => CloseCount(u.calls) = 0
           /\ (At(i, "finally") /\ u # t) =>
                u.result = t.result /\ u.st = "done"
           /\ t.st = "done" => u.result = t.result]_vars

\* C10 witness: a task wrote its artifact, its close raised, and it returned
\* a successful result all the same; another task failed at get_facts and
\* closed its session.
C10_Witness ==
  \E i, j \in 1..N :
    /\ tasks[i].st = "done"
    /\ "close!" \in Range(tasks[i].calls)
    /\ Val(tasks[i].result).success
    /\ tasks[j].st = "done"
    /\ tasks[j].calls = <<"open", "get_facts!", "close">>

\* C11: every future that raised and was collected stands in the result list
\* exactly once, as a failed result made of the hostname the future was
\* submitted under and the text of the error, without device type, file name,
\* size or vendor; and the loop goes on after it: once anything was
\* collected, the main thread leaves the loop only when all N futures were
\* collected.
C11_RaisedBecomesOneFailedResult ==
  /\ Len(results) = Len(collected)
  /\ \A i \in 1..N : Cardinality({k \in 1..Len(collected) : collected[k] = i}) <= 1
  /\ \A k \in 1..Len(collected) :
       LET i == collected[k]
           r == results[k]
       IN  tasks[i].st = "raised" =>
             /\ r.hostname = Val(inventory_file[i].hostname)
             /\ ~r.success
             /\ r.error # None /\ r.error = tasks[i].exc
             /\ r.device_type = None
             /\ r.filename = None /\ r.size = None /\ r.vendor = None
  /\ (Len(collected) > 0 /\ main \in {"summary", "exited"}) =>
       /\ Len(collected) = N
       /\ \A i \in 1..N : tasks[i].st = "raised" => i \in Range(collected)

\* C11 witness: the first future collected had raised, and the loop went on
\* to collect the result of a task that returned.
C11_Witness ==
  /\ Len(collected) = 2
  /\ tasks[collected[1]].st = "raised"
  /\ tasks[collected[2]].st = "done"
  /\ results[1].error = Some(NoDriverError)

\* C12 (as claimed): the hostname of every result a task returned, and of
\* every result collected, is the hostname of the inventory entry the result
\* was produced for, whatever get_facts answered and whether or not the task
\* failed after it.
C12_HostnameIsInventoryHostname ==
  /\ \A i \in 1..N :
       tasks[i].st = "done" =>
         Val(tasks[i].result).hostname = Val(inventory_file[i].hostname)
  /\ \A k \in 1..Len(collected) :
       results[k].hostname = Val(inventory_file[collected[k]].hostname)

\* The hostname task i resolved at line 271.
ResolvedHostname(i) == Val(tasks[i].result).hostname

\* C13: two tasks of a run that computed their file names from distinct
\* resolved hostnames have distinct file paths, so neither opens or writes
\* the file of the other; this with and without a tag and also when both
\* captured the same timestamp.
C13_DistinctHostsDistinctPaths ==
  \A i, j \in 1..N :
    (/\ i # j
     /\ tasks[i].filename # None /\ tasks[j].filename # None
     /\ ResolvedHostname(i) # ResolvedHostname(j)) =>
      /\ tasks[i].filename # tasks[j].filename
      /\ Val(tasks[i].filename).dir # Val(tasks[j].filename).dir

\* C13 witness: under a tag, two tasks with distinct resolved hostnames
\* captured the same timestamp and both wrote their files.
C13_Witness ==
  /\ N = 2 /\ TruthySeq(ctx.tag)
  /\ "write" \in Range(tasks[1].calls) /\ "write" \in Range(tasks[2].calls)
  /\ ResolvedHostname(1) # ResolvedHostname(2)
  /\ tasks[1].timestamp = tasks[2].timestamp
  /\ Cardinality(DOMAIN fs) = 2

\* R of C14 for task i: the hostname of the facts the driver returned, or
\* else the inventory hostname cut before its first dot.
FactsOrShortHostname(i) ==
  LET facts == Val(tasks[i].facts)
  IN  IF facts.hostname # None THEN Val(facts.hostname)
      ELSE <<Head(Val(inventory_file[i].hostname))>>

\* C14: the result of a successful task names, and the file system holds, a
\* file in the directory <output directory>/R whose name is made of the
\* segments R, tag, timestamp when a tag is configured and R, timestamp when
\* none is, with the suffix cfg; the timestamp is the one the task captured
\* and the tag segment is the one right before it.
C14_ArtifactPlacement ==
  \A i \in 1..N :
    (tasks[i].result # None /\ Val(tasks[i].result).success) =>
      LET R == FactsOrShortHostname(i)
          path == Val(Val(tasks[i].result).filename)
          timestamp == Val(tasks[i].timestamp)
      IN  /\ path.dir = <<Directory, R>>
          /\ path.suffix = "cfg"
          /\ path.name = IF ctx.tag # None THEN <<R, Val(ctx.tag), timestamp>>
                         ELSE <<R, timestamp>>
          /\ path.name[Len(path.name)] = timestamp
          /\ ctx.tag # None => path.name[Len(path.name) - 1] = Val(ctx.tag)
          /\ \E second \in 1..MaxClock : timestamp = Strftime(second)
          /\ path \in DOMAIN fs

\* C14 witness: under a tag, a task whose device gave no hostname in its facts
\* succeeded for an inventory hostname with a domain suffix.
C14_Witness ==
  \E i \in 1..N :
    /\ tasks[i].st = "done" /\ Val(tasks[i].result).success
    /\ ctx.tag = Some(<<"n", "1">>)
    /\ Val(tasks[i].facts).hostname = None
    /\ Len(Val(inventory_file[i].hostname)) = 2
    /\ Val(tasks[i].filename).dir = <<Directory, <<"r1">>>>

\* The moves of a task's future: submitted to the queue (Pending), taken by
\* a worker (Running), returned or raised (Succeeded or Failed).
TaskMoves ==
  { <<"unsubmitted", "pending">>, <<"pending", "running">>,
    <<"running", "done">>, <<"running", "raised">> }

OpenCount(calls) ==
  Cardinality({k \in 1..Len(calls) : calls[k] \in {"open", "open!"}})

\* C15: in every step, every task keeps its state or makes one of the moves
\* Pending -> Running -> returned or raised, so it is started at most once;
\* it has called conn.open() at most once; a task that returned or raised
\* keeps its state, its result and its error for good; and a result that
\* stands in the result list stays there unchanged.
C15_TaskLifecycle ==
  [][/\ \A i \in 1..N :
          LET t == tasks[i]
              u == tasks'[i]
          IN  /\ u.st = t.st \/ <<t.st, u.st>> \in TaskMoves
              /\ OpenCount(u.calls) <= 1
              /\ Terminal(i) => u.st = t.st /\ u.result = t.result
                                /\ u.exc = t.exc
      /\ Len(results') >= Len(results)
      /\ \A k \in 1..Len(results) : results'[k] = results[k]]_vars

\* C15 witness: the run is over; one task failed at open and was not tried
\* again, the other succeeded, and both results stand in the result list.
C15_Witness ==
  /\ main = "exited" /\ N = 2 /\ Len(results) = 2
  /\ \E i, j \in 1..N :
       /\ tasks[i].st = "done" /\ ~Val(tasks[i].result).success
       /\ OpenCount(tasks[i].calls) = 1 /\ "open!" \in Range(tasks[i].calls)
       /\ tasks[j].st = "done" /\ Val(tasks[j].result).success

\* The tasks that wait in a driver call that never returns.
HungTasks == {i \in 1..N : tasks[i].pc = "hung"}

\* Task i is submitted and neither finished nor hung.
InFlight(i) ==
  /\ i <= N
  /\ tasks[i].st \in {"pending", "running"}
  /\ tasks[i].pc # "hung"

\* Task i has returned or raised.
Finished(i) == i <= N /\ Terminal(i)

\* Task i hangs.
Hangs(i) == i <= N /\ tasks[i].pc = "hung"

\* C16 (as claimed): for every positive ctx.workers, whatever other tasks
\* hang, every submitted task that does not hang itself is eventually
\* started and returns or raises.
C16_HungTaskBlocksNoOther ==
  \A i \in 1..MaxDevices :
    (InFlight(i) /\ ctx.workers >= 1) ~> (Finished(i) \/ Hangs(i))

\* C16 (amended): the same as long as fewer tasks hang than the pool has
\* workers; and the run does not return while a task hangs.
C16_HungTaskBlocksNoOtherWhileWorkerFree ==
  /\ \A i \in 1..MaxDevices :
       InFlight(i) ~>
         (Finished(i) \/ Hangs(i) \/ Cardinality(HungTasks) >= ctx.workers)
  /\ [](HungTasks # {} => main \notin {"summary", "exited"})

\* C16 witness: on two workers the first task hangs in a driver call and the
\* second, queued behind it, has run and returned a successful result.
C16_Witness ==
  /\ N = 2 /\ ctx.workers = 2
  /\ tasks[1].pc = "hung"
  /\ tasks[2].st = "done" /\ Val(tasks[2].result).success

\* C17 (as claimed): the progress bar was advanced by one for every future
\* collected, whatever its outcome, and when backup_all_devices has returned
\* it stands at the number of devices.
C17_ProgressCountsEveryTask ==
  /\ progress = Len(collected)
  /\ main = "summary" => progress = N

\* C17 (amended): the same when reporting is on; under --silent or --debug
\* the progress bar is never advanced.
C17_ProgressCountsEveryTaskWhenReporting ==
  /\ Reporting => progress = Len(collected)
  /\ (Reporting /\ main = "summary") => progress = N
  /\ ~Reporting => progress = 0

\* C17 witness: with reporting on, a run of two devices has returned with the
\* progress at two; one task raised and the other returned a failed result.
C17_Witness ==
  /\ Reporting /\ main = "summary" /\ N = 2 /\ progress = 2
  /\ \E i, j \in 1..N :
       /\ tasks[i].st = "raised"
       /\ tasks[j].st = "done" /\ ~Val(tasks[j].result).success

\* The characters str.isspace() holds of, among those of the tags explored.
Whitespace == {" ", "\t"}

\* A configuration error as C18 lists them.
ConfigurationError ==
  \/ ctx.workers <= 0
  \/ ctx.tag # None /\ Range(Val(ctx.tag)) \cap Whitespace # {}
  \/ ctx.devices = None

\* C18 (as claimed): in a run with a configuration error no task is
\* submitted, no driver is built and no driver call is made, and the run
\* does not end with exit status 0.
C18_ConfigErrorsAbortBeforeContact ==
  ConfigurationError =>
    /\ Submitted = {}
    /\ \A i \in 1..N : tasks[i].conn = None /\ tasks[i].calls = <<>>
    /\ exit_status # Some(0)

\* The credentials were resolved: the main thread is past lines 106-112.
CredentialsResolved == inventory # <<>> /\ main # "credentials"

\* What stops the run before backup_all_devices submits anything.
StoppedBeforeDispatch ==
  \/ ctx.tag # None /\ " " \in Range(Val(ctx.tag))
  \/ ctx.devices = None
  \/ load_inventory_Raises(inventory_file)
  \/ ctx.workers <= 0

\* C19: after credential resolution an entry that had both username and
\* password has them unchanged, whatever fallback was given, and its driver
\* is built with them; without a full fallback pair every entry is as it was
\* in the devices file, its missing fields still missing, and the driver is
\* built with the missing values; and a run that ends before anything is
\* submitted ends for another reason than credentials.
C19_CompleteRecordKept ==
  /\ CredentialsResolved =>
       \A k \in 1..N :
         LET record == inventory_file[k]
         IN  /\ (record.username # None /\ record.password # None) =>
                  /\ inventory[k] = record
                  /\ tasks[k].conn # None =>
                       /\ Val(tasks[k].conn).username = record.username
                       /\ Val(tasks[k].conn).password = record.password
             /\ ~FallbackGiven =>
                  /\ inventory[k] = record
                  /\ tasks[k].conn # None =>
                       /\ Val(tasks[k].conn).username = record.username
                       /\ Val(tasks[k].conn).password = record.password
  /\ (main = "exited" /\ Submitted = {}) => StoppedBeforeDispatch

\* C19 witness: with fallback credentials given, the driver of an entry that
\* has both fields was built with the entry's own.
C19_Witness ==
  \E i \in 1..N :
    /\ FallbackGiven
    /\ inventory_file[i].username = Some("carol")
    /\ inventory_file[i].password = Some("pwC")
    /\ tasks[i].conn # None
    /\ Val(tasks[i].conn).username = Some("carol")

\* Without a fallback pair, the driver of an entry without credentials was
\* built with none, and only the device refused.
C19_WitnessNoFallback ==
  \E i \in 1..N :
    /\ ~FallbackGiven /\ ctx.username # None
    /\ inventory_file[i].username = None /\ inventory_file[i].password = None
    /\ tasks[i].conn # None /\ Val(tasks[i].conn).username = None
    /\ "open!" \in Range(tasks[i].calls)

\* The vendor a result is counted under.
VendorOf(r) == IF r.vendor = None THEN "unknown" ELSE Val(r.vendor)

RECURSIVE SumOver(_, _)
\* The sum of the counts f[v] for v in S.
SumOver(f, S) ==
  IF S = {} THEN 0
  ELSE LET v == CHOOSE x \in S : TRUE
       IN  f[v] + SumOver(f, S \ {v})

\* What C20 says of the counts s computed from the results rs.
SummaryAgrees(s, rs) ==
  LET Successes == {k \in 1..Len(rs) : rs[k].success}
      Failures == {k \in 1..Len(rs) : ~rs[k].success}
  IN  /\ s.total = Len(rs)
      /\ s.successful = Cardinality(Successes)
      /\ s.failed = Cardinality(Failures)
      /\ s.successful + s.failed = s.total
      /\ DOMAIN s.vendor_stats = {VendorOf(rs[k]) : k \in Successes}
      /\ \A v \in DOMAIN s.vendor_stats :
           s.vendor_stats[v] =
             Cardinality({k \in Successes : VendorOf(rs[k]) = v})
      /\ SumOver(s.vendor_stats, DOMAIN s.vendor_stats) = s.successful

\* C20: in every step that leaves a summary, its counts are those of the
\* result list: the total is its length, successes and failures are the
\* numbers of results with and without success and add up to the total, the
\* vendors counted are those of the successful results, each with the number
\* of its successful results, the counts adding up to the successes; a
\* successful task whose facts had no vendor is counted under "unknown"; and
\* the step that computes the summary leaves the result list as it was.
C20_SummaryCounts ==
  [][summary' # None =>
       /\ SummaryAgrees(Val(summary'), results')
       /\ \A i \in 1..N :
            (/\ tasks[i].st = "done" /\ Val(tasks[i].result).success
             /\ Val(tasks[i].facts).vendor = None) =>
              "unknown" \in DOMAIN Val(summary').vendor_stats
       /\ results' = results]_vars

\* C20 witness: the summary of a run of two devices counts one failure and
\* one success, the success under "unknown".
C20_Witness ==
  /\ summary # None /\ N = 2
  /\ Val(summary).total = 2
  /\ Val(summary).successful = 1 /\ Val(summary).failed = 1
  /\ DOMAIN Val(summary).vendor_stats = {"unknown"}
  /\ \E k \in 1..2 : ~results[k].success /\ results[k].vendor = Some("Cisco")

\* The driver and file steps of backup_device in the order of lines 264-289;
\* the write is the open of the file followed by f.write.
StepOrder == <<"open", "get_facts", "get_config", "open_file", "write">>

\* The log entry of a step that raised.
Failed(name) ==
  CASE name = "open" -> "open!"
    [] name = "get_facts" -> "get_facts!"
    [] name = "get_config" -> "get_config!"
    [] name = "open_file" -> "open_file!"
    [] name = "write" -> "write!"

\* The logs of the steps before close that the order allows: the first k
\* steps completed, or the first k completed and the next one failed.
OrderedLogs ==
  {SubSeq(StepOrder, 1, k) : k \in 0..Len(StepOrder)}
  \cup {SubSeq(StepOrder, 1, k) \o <<Failed(StepOrder[k + 1])>> :
          k \in 0..(Len(StepOrder) - 1)}

\* The log without a close at its end.
BeforeClose(calls) ==
  IF calls # <<>> /\ calls[Len(calls)] \in CloseCalls
    THEN SubSeq(calls, 1, Len(calls) - 1)
    ELSE calls

\* C21: in every step, the log of every task is, before its close, a prefix
\* of open, get_facts, get_config, write in this order, each completed, or
\* such a prefix followed by the one next step that failed; a step only
\* appends to the log, one entry at a time; close comes after a completed
\* write or else after a failure, which the result records; and a log that
\* ends with close never changes again.
C21_StepsInOrder ==
  [][\A i \in 1..N :
       LET calls == tasks[i].calls
           after == tasks'[i].calls
       IN  /\ BeforeClose(after) \in OrderedLogs
           /\ \/ after = calls
              \/ /\ Len(after) = Len(calls) + 1
                 /\ SubSeq(after, 1, Len(calls)) = calls
           /\ (after # <<>> /\ after[Len(after)] \in CloseCalls) =>
                \/ BeforeClose(after) = StepOrder
                \/ Val(tasks'[i].result).error # None
           /\ (calls # <<>> /\ calls[Len(calls)] \in CloseCalls) =>
                after = calls]_vars

\* C21 witness: one task went through all the steps and closed; another
\* failed at get_config, skipped the write and closed.
C21_Witness ==
  \E i, j \in 1..N :
    /\ tasks[i].calls =
         <<"open", "get_facts", "get_config", "open_file", "write", "close">>
    /\ tasks[j].calls = <<"open", "get_facts", "get_config!", "close">>

\* C22: the result of every task that returned has a file name and a size
\* exactly when its success is true, and an error text exactly when its
\* success is false; and at any time a result whose success is true belongs
\* to a task that has written its file and stands past the reading of the
\* size, the file name being the task's own.
C22_FieldsFollowSuccess ==
  \A i \in 1..N :
    tasks[i].result # None =>
      LET r == Val(tasks[i].result)
      IN  /\ tasks[i].st = "done" =>
               /\ r.success <=> r.filename # None
               /\ r.success <=> r.size # None
               /\ ~r.success <=> r.error # None
          /\ r.success =>
               /\ "write" \in Range(tasks[i].calls)
               /\ tasks[i].pc \in {"finally", "end"}
               /\ r.filename = tasks[i].filename
               /\ r.size # None /\ r.error = None

\* C22 witness: one task returned a success with file name and size; another
\* failed at the write and returned an error without either.
C22_Witness ==
  \E i, j \in 1..N :
    /\ tasks[i].st = "done" /\ Val(tasks[i].result).success
    /\ Val(tasks[i].result).filename # None
    /\ tasks[j].st = "done" /\ "write!" \in Range(tasks[j].calls)
    /\ Val(tasks[j].result).error = Some(WriteError)
    /\ Val(tasks[j].result).filename = None

\* C23 (as claimed): when the run is over, every file under the output
\* directory is named by the result of a task that returned with success;
\* and the file a failed task opened is there only if a successful task's
\* result names it.
C23_NoArtifactOfFailedTask ==
  main = "exited" =>
    \A path \in DOMAIN fs :
      \E i \in 1..N :
        /\ tasks[i].st = "done"
        /\ Val(tasks[i].result).success
        /\ Val(tasks[i].result).filename = Some(path)

=============================================================================
